---- MODULE Spec2Model ----
(***************************************************************************)
(* The comment/reply store service of src/server.js: an express route      *)
(* table over one mongoose collection of Comment documents with embedded   *)
(* replies.  Every handler is an async function that is suspended at each  *)
(* await of a store call; handlers of different requests interleave at     *)
(* these awaits.  A handler touches shared state only through its store    *)
(* calls, and each store call is one atomic command of the store, so a     *)
(* handler with one store call is one action (taken at the moment the      *)
(* store executes the call) and a handler with two store calls (find, then *)
(* save) is two actions with the handler suspended in between.             *)
(***************************************************************************)
EXTENDS Integers, Sequences, FiniteSets, TLC

\* ---------------------------------------------------------------- bounds
\* Handlers that may be suspended between their find and their save at the
\* same time.
NumReqs == 2
\* ObjectIds generated during one behaviour (comments and replies together).
MaxIds == 3
\* Largest reading of the wall clock (Date.now()).
MaxClock == 1

\* ------------------------------------------------------ program constants
MaxCommentText == 1000
MaxReplyText == 500

\* ------------------------------------------------------------- JS values
\* A request field is either absent (undefined) or a string.  A string is
\* kept as its leading whitespace, its core (the part between the first and
\* the last non-whitespace character, named by `tag` and `len` characters
\* long) and its trailing whitespace.  A string without a core is all
\* whitespace and is kept with post = 0.
Undefined == [kind |-> "undefined", pre |-> 0, tag |-> "", len |-> 0, post |-> 0]

Str(pre, tag, len, post) ==
    [kind |-> "string", pre |-> pre, tag |-> tag, len |-> len, post |-> post]

\* String.prototype.length
Length(s) == s.pre + s.len + s.post

\* JS truthiness of a field: `!x` is true of undefined and of "".
Truthy(s) == s.kind = "string" /\ Length(s) > 0

\* String.prototype.trim
Trim(s) == [s EXCEPT !.pre = 0, !.post = 0]

Guest == Str(0, "Guest", 5, 0)

\* `email || 'Guest'`
EmailOrGuest(email) == IF Truthy(email) THEN email ELSE Guest

\* ------------------------------------------------------------ identifiers
\* ObjectIds are the naturals 1, 2, ... in the order they are generated (an
\* id generated for a comment that is never stored is seen by nobody and is
\* not counted); 0 stands for a string that does not cast to an ObjectId.
IsObjectId(id) == id >= 1

\* Strings the requests are built from.
Hi == Str(0, "hi", 2, 0)
PaddedHi == Str(1, "hi", 2, 2)
Yo == Str(0, "yo", 2, 0)
PaddedYo == Str(2, "yo", 2, 1)
Blank == Str(2, "", 0, 0)
Empty == Str(0, "", 0, 0)
EmailA == Str(0, "a@x.com", 7, 0)
Post1 == Str(0, "post-1", 6, 0)
Spaces == Str(1, "", 0, 0)

\* -------------------------------------------------------------- documents
\* new Comment({contentId, email, text}): the constructor generates _id and
\* applies the schema defaults (date: Date.now, replies: []); __v starts at 0.
Comment(id, contentId, email, text, date) ==
    [id |-> id, contentId |-> contentId, email |-> email, text |-> text,
     date |-> date, replies |-> <<>>, v |-> 0]

\* A reply sub-document: _id is generated when the object is pushed.
Reply(id, email, text, date) ==
    [id |-> id, email |-> email, text |-> text, date |-> date]

\* Schema validation run by save(): a required String must be non-empty.
ValidReply(rp) == Truthy(rp.text)

ValidComment(d) ==
    /\ Truthy(d.contentId)
    /\ Truthy(d.text)
    /\ \A i \in 1..Len(d.replies) : ValidReply(d.replies[i])

\* ------------------------------------------------------------------ state
VARIABLES
    comments,   \* the collection: the set of stored Comment documents
    reqs,       \* per slot: a handler suspended at `await comment.save()`
    resp,       \* the response the last step sent, if it sent one
    nextId,     \* the next ObjectId the driver generates
    now,        \* the wall clock
    created,    \* history: stored comment id -> the fields its request gave
    replied,    \* history: ids of the comments an AddReply has saved a reply to
    deleted,    \* history: ids of the comments a DeleteComment has removed
    buried,     \* history: ids of the replies removed with their comment
    removed,    \* history: <<commentId, replyId>> a DeleteReply has removed
    mongoUri    \* whether process.env.MONGO_URI held a connection string

hist == <<created, replied, deleted, buried, removed>>

vars ==
    <<comments, reqs, resp, nextId, now, created, replied, deleted, buried, removed,
      mongoUri>>

Reqs == 1..NumReqs

\* A request.  `doc` is the handler's local document (empty: none), `body`
\* the documents of the JSON response, `status` the HTTP status (0: not
\* answered), `err` the error the handler answered, `t0` the time the
\* request arrived.  id = -1 stands for an absent id field.
Idle ==
    [op |-> "none", pc |-> "idle", contentId |-> Undefined, email |-> Undefined,
     text |-> Undefined, id |-> -1, replyId |-> -1, t0 |-> 0,
     doc |-> <<>>, status |-> 0, err |-> "", body |-> <<>>]

\* A new handler is kept in the first slot that holds none.
Free(r) == reqs[r].pc = "idle" /\ \A q \in 1..(r - 1) : reqs[q].pc # "idle"
\* A response that fails after the handler's write: the handler ends in its
\* catch block, which answers 500.
AnswerThrows(rq, status, body) ==
    [rq EXCEPT !.pc = "done", !.status = 500, !.err = "Internal", !.doc = <<>>]

\* res.status(status).json(body): the request as answered.
Answer(rq, status, body) ==
    [rq EXCEPT !.pc = "done", !.status = status, !.body = body, !.doc = <<>>]

\* res.status(status).json({error}): the request as refused, for the reason
\* err.
Refuse(rq, status, err) ==
    [rq EXCEPT !.pc = "done", !.status = status, !.err = err, !.doc = <<>>]

\* The catch block of the list and create handlers: every error is a 500.
Catch500(rq, err) == Refuse(rq, 500, err)

\* The catch block of the other handlers: a CastError is a 400, every other
\* error a 500.
CatchCast(rq, err) == Refuse(rq, IF err = "CastError" THEN 400 ELSE 500, err)

Ids(S) == {d.id : d \in S}

\* The ids of the replies of document d.
ReplyIdsOf(d) == {d.replies[i].id : i \in 1..Len(d.replies)}
\* FindById as an upsert: an id no stored document has yields a new document.
FindByIdOrNew(id) ==
    IF id \in Ids(comments)
    THEN <<CHOOSE d \in comments : d.id = id>>
    ELSE <<[id |-> id, contentId |-> Post1, email |-> Guest, text |-> Hi,
            date |-> 0, replies |-> <<>>, v |-> 0]>>
\* FindById with a filter that matches every document when none has the id.
FindByIdOrFirst(id) ==
    IF id \in Ids(comments)
    THEN <<CHOOSE d \in comments : d.id = id>>
    ELSE IF comments # {} THEN <<CHOOSE d \in comments : TRUE>> ELSE <<>>

\* Comment.findById(id): the stored document, or null (the empty sequence).
FindById(id) ==
    IF id \in Ids(comments)
    THEN <<CHOOSE d \in comments : d.id = id>>
    ELSE <<>>

\* Ids a client names: a string that is no ObjectId, the ids of the stored
\* and of the deleted comments, and a well-formed id nothing ever had.
CommentIdInputs == {0, MaxIds + 1} \cup Ids(comments) \cup deleted

\* The ids of the replies stored under comment c.
ReplyIds(c) == UNION {ReplyIdsOf(d) : d \in {x \in comments : x.id = c}}

\* Reply ids a client names for comment c: the id nothing ever had and, when
\* c is stored, a string that is no ObjectId, the ids of its replies and
\* the ids of the replies a DeleteReply removed from it; when c was deleted,
\* the ids of the replies removed with their comments.
ReplyIdInputs(c) ==
    {MaxIds + 1} \cup
        (IF c \in Ids(comments)
         THEN {0} \cup ReplyIds(c) \cup {p[2] : p \in {x \in removed : x[1] = c}}
         ELSE IF c \in deleted THEN buried ELSE {})

Init ==
    /\ comments = {}
    /\ reqs = [r \in Reqs |-> Idle]
    /\ resp = Idle
    /\ nextId = 1
    /\ now = 0
    /\ created = <<>>
    /\ replied = {}
    /\ deleted = {}
    /\ buried = {}
    /\ removed = {}
    /\ mongoUri \in BOOLEAN

\* ------------------------------------------------------------ environment
Tick ==
    /\ now < MaxClock
    /\ now' = now + 1
    /\ resp' = Idle
    /\ UNCHANGED <<comments, reqs, nextId, hist, mongoUri>>

\* In every handler below, `up` says whether the store executes the call:
\* when it is unreachable the call rejects (buffering or server selection
\* times out) with an error that is no CastError.
\* mongoose.connect(process.env.MONGO_URI) with the variable unset rejects,
\* the rejection is logged by the .catch and the program goes on to
\* app.listen: the server runs without a connection and no store call is
\* ever executed.
StoreUp == IF mongoUri THEN BOOLEAN ELSE {FALSE}

\* ------------------------------------------------- GET /:contentId (list)
\* The route parameter of a matched request is a non-empty string.
ListContentIds == {Post1, Spaces}
\* Matching with the requested id trimmed before it is compared.
MatchingTrimmed(S, contentId) == {d \in S : d.contentId = Trim(contentId)}

\* Comment.find({contentId}): the stored documents the filter matches.
Matching(S, contentId) == {d \in S : d.contentId = contentId}
\* SortDateDesc with the order of the sort reversed.
SortDateAsc(S) ==
    {s \in [1..Cardinality(S) -> S] :
        /\ \A i, j \in 1..Cardinality(S) : i # j => s[i] # s[j]
        /\ \A i, j \in 1..Cardinality(S) : i < j => s[i].date <= s[j].date}

\* .sort({date: -1}): the documents of S in an order of descending date.
\* The store fixes no order between documents of equal date, so every such
\* order is a possible result.
SortDateDesc(S) ==
    {s \in [1..Cardinality(S) -> S] :
        /\ \A i, j \in 1..Cardinality(S) : i # j => s[i] # s[j]
        /\ \A i, j \in 1..Cardinality(S) : i < j => s[i].date >= s[j].date}

ListComments(contentId, up) ==
    /\ LET rq == [Idle EXCEPT !.op = "list", !.contentId = contentId]
       IN IF ~Truthy(contentId)
          THEN resp' = Refuse(rq, 400, "Missing")
          ELSE IF ~up
          THEN resp' = Catch500(rq, "Unreachable")
          ELSE \E result \in SortDateDesc(Matching(comments, contentId)) :
                  resp' = Answer(rq, 200, result)
    /\ UNCHANGED <<comments, reqs, nextId, now, hist, mongoUri>>

\* ------------------------------------------------------- POST / (create)
\* Request bodies {contentId, email, text} a client sends.
CreateBodies ==
    {[contentId |-> Post1, email |-> Undefined, text |-> PaddedHi],
     [contentId |-> Spaces, email |-> EmailA, text |-> Hi],
     [contentId |-> Undefined, email |-> EmailA, text |-> Hi],
     [contentId |-> Post1, email |-> Undefined, text |-> Empty],
     [contentId |-> Post1, email |-> EmailA, text |-> Blank],
     [contentId |-> Post1, email |-> EmailA, text |-> Str(0, "long", MaxCommentText + 1, 0)],
     [contentId |-> Post1, email |-> EmailA, text |-> Str(1, "long", MaxCommentText, 0)]}
\* The validation without the tests on the text: only missing fields are
\* refused.
CreateRejectsMissing(contentId, text) ==
    IF ~Truthy(contentId) \/ ~Truthy(text) THEN "Missing" ELSE ""

\* The validation of the handler: the error it answers with 400, "" when
\* the body passes.
CreateRejects(contentId, text) ==
    IF ~Truthy(contentId) \/ ~Truthy(text) THEN "Missing"
    ELSE IF Length(Trim(text)) = 0 THEN "Empty"
    ELSE IF Length(text) > MaxCommentText THEN "TooLong"
    ELSE ""

\* The handler, arrived at time t0 (when it validates and constructs the
\* document) and reaching the store now: newComment.save() validates the
\* document against the schema and inserts it.
CreateComment(b, t0, up) ==
    /\ LET rq == [Idle EXCEPT !.op = "create", !.contentId = b.contentId,
                              !.email = b.email, !.text = b.text]
           newComment == Comment(nextId, b.contentId, EmailOrGuest(b.email),
                                 Trim(b.text), t0)
       IN IF CreateRejects(b.contentId, b.text) # ""
          THEN /\ resp' = Refuse(rq, 400, CreateRejects(b.contentId, b.text))
               /\ UNCHANGED <<comments, nextId, created>>
          ELSE /\ nextId <= MaxIds
               /\ IF ~ValidComment(newComment)
                  THEN /\ resp' = Catch500(rq, "ValidationError")
                       /\ UNCHANGED <<comments, nextId, created>>
                  ELSE IF ~up
                  THEN /\ resp' = Catch500(rq, "Unreachable")
                       /\ UNCHANGED <<comments, nextId, created>>
                  ELSE /\ comments' = comments \cup {newComment}
                       /\ created' = (nextId :> [contentId |-> b.contentId,
                                                 text |-> b.text]) @@ created
                       /\ nextId' = nextId + 1
                       /\ resp' = Answer(rq, 201, <<newComment>>)
    /\ UNCHANGED <<reqs, now, replied, deleted, buried, removed, mongoUri>>
\* A delete of the whole thread: every comment of the contentId of the
\* comment with the id goes.
FindByIdAndDeleteThread(id) ==
    {d \in comments : \A e \in comments : e.id = id => d.contentId # e.contentId}

\* ------------------------------------------- DELETE /:commentId (delete)
\* A soft delete: the command reports the document and leaves it stored.
FindByIdAndKeep(id) == comments

\* The collection after Comment.findByIdAndDelete(id).
FindByIdAndDelete(id) == {d \in comments : d.id # id}

\* Comment.findByIdAndDelete(commentId): one atomic store command.  An id
\* that does not cast to an ObjectId rejects with a CastError before any
\* command is sent.
DeleteComment(id, up) ==
    /\ LET rq == [Idle EXCEPT !.op = "delete", !.id = id]
           result == FindById(id)
       IN IF ~IsObjectId(id)
          THEN /\ resp' = CatchCast(rq, "CastError")
               /\ UNCHANGED <<comments, created, deleted, buried>>
          ELSE IF ~up
          THEN /\ resp' = CatchCast(rq, "Unreachable")
               /\ UNCHANGED <<comments, created, deleted, buried>>
          ELSE IF result = <<>>
          THEN /\ resp' = Refuse(rq, 404, "NotFound")
               /\ UNCHANGED <<comments, created, deleted, buried>>
          ELSE /\ comments' = FindByIdAndDelete(id)
               /\ created' = [k \in DOMAIN created \ {id} |-> created[k]]
               /\ deleted' = deleted \cup {id}
               /\ buried' = buried \cup ReplyIdsOf(result[1])
               /\ resp' = Answer(rq, 200, result)
    /\ UNCHANGED <<reqs, nextId, now, replied, removed, mongoUri>>

\* ---------------------------------------------------- POST /reply (reply)
ReplyBody(contentId, parentCommentId, email, text) ==
    [contentId |-> contentId, parentCommentId |-> parentCommentId,
     email |-> email, text |-> text]

\* Request bodies {contentId, parentCommentId, email, text} a client sends
\* (parentCommentId = -1: the body has none): complete bodies for every id
\* a client names, and bodies with a field missing or a text the handler
\* refuses, addressed to the stored comments.
ReplyRequests ==
    {ReplyBody(Post1, p, Undefined, PaddedYo) : p \in CommentIdInputs}
    \cup {ReplyBody(Undefined, p, Undefined, Yo) : p \in {MaxIds + 1} \cup Ids(comments)}
    \cup {ReplyBody(Post1, -1, EmailA, Yo)}
    \cup {ReplyBody(Post1, p, EmailA, Blank) : p \in Ids(comments)}
    \cup {ReplyBody(Post1, p, EmailA, Str(0, "long", MaxReplyText + 1, 0)) : p \in Ids(comments)}

\* The validation of the handler: the error it answers with 400, "" when
\* the body passes.
ReplyRejects(contentId, parentCommentId, text) ==
    IF ~Truthy(contentId) \/ parentCommentId = -1 \/ ~Truthy(text) THEN "Missing"
    ELSE IF Length(Trim(text)) = 0 THEN "Empty"
    ELSE IF Length(text) > MaxReplyText THEN "TooLong"
    ELSE ""

\* comment.replies.push(newReply): the local array gets the reply at its end.
Push(d, rp) == [d EXCEPT !.replies = Append(@, rp)]

\* The handler, arrived at time t0, up to `await comment.save()`: the
\* validation, const comment = await Comment.findById(parentCommentId), and
\* the push on the local document.
AddReplyFind(r, b, t0, up) ==
    /\ Free(r)
    /\ LET rq == [Idle EXCEPT !.op = "reply", !.contentId = b.contentId,
                              !.email = b.email, !.text = b.text,
                              !.id = b.parentCommentId]
           result == FindById(b.parentCommentId)
           newReply == Reply(nextId, EmailOrGuest(b.email), Trim(b.text), now)
       IN IF ReplyRejects(b.contentId, b.parentCommentId, b.text) # ""
          THEN /\ resp' = Refuse(rq, 400, ReplyRejects(b.contentId, b.parentCommentId, b.text))
               /\ UNCHANGED <<reqs, nextId>>
          ELSE IF ~IsObjectId(b.parentCommentId)
          THEN /\ resp' = CatchCast(rq, "CastError")
               /\ UNCHANGED <<reqs, nextId>>
          ELSE IF ~up
          THEN /\ resp' = CatchCast(rq, "Unreachable")
               /\ UNCHANGED <<reqs, nextId>>
          ELSE IF result = <<>>
          THEN /\ resp' = Refuse(rq, 404, "NotFound")
               /\ UNCHANGED <<reqs, nextId>>
          ELSE /\ nextId <= MaxIds
               /\ reqs' = [reqs EXCEPT ![r] =
                      [rq EXCEPT !.pc = "save", !.t0 = t0,
                                 !.doc = <<Push(result[1], newReply)>>]]
               /\ nextId' = nextId + 1
               /\ resp' = Idle
    /\ UNCHANGED <<comments, now, hist, mongoUri>>
\* PushUpdate with the pushed reply put at the front of the stored array.
PushUpdateFront(stored, local) ==
    [stored EXCEPT !.replies = <<local.replies[Len(local.replies)]>> \o @,
                   !.v = @ + 1]
\* PushUpdate as a read-modify-write: the stored array is replaced by the
\* local one.
SetUpdate(stored, local) ==
    [stored EXCEPT !.replies = local.replies, !.v = @ + 1]
\* PushUpdate that also moves the date of the comment to that of the reply.
PushUpdateTouch(stored, local) ==
    [stored EXCEPT !.replies = Append(@, local.replies[Len(local.replies)]),
                   !.date = local.replies[Len(local.replies)].date,
                   !.v = @ + 1]

\* PushUpdate without the increment of the version: a push that is not
\* versioned.
PushUpdateUnversioned(stored, local) ==
    [stored EXCEPT !.replies = Append(@, local.replies[Len(local.replies)])]

\* The update save() sends for a document whose only change is a push on
\* `replies`: updateOne({_id}, {$push: {replies: newReply}, $inc: {__v: 1}}).
\* The store appends to the array it holds at that moment.
PushUpdate(stored, local) ==
    [stored EXCEPT !.replies = Append(@, local.replies[Len(local.replies)]),
                   !.v = @ + 1]

\* await comment.save() and the response.  When the update matches no
\* document (the comment was deleted meanwhile) save() rejects with a
\* VersionError.
AddReplySave(r, up) ==
    /\ reqs[r].op = "reply" /\ reqs[r].pc = "save"
    /\ LET local == reqs[r].doc[1]
           stored == FindById(local.id)
       IN IF ~ValidComment(local)
          THEN /\ resp' = CatchCast(reqs[r], "ValidationError")
               /\ UNCHANGED <<comments, replied>>
          ELSE IF ~up
          THEN /\ resp' = CatchCast(reqs[r], "Unreachable")
               /\ UNCHANGED <<comments, replied>>
          ELSE IF stored = <<>>
          THEN /\ resp' = CatchCast(reqs[r], "VersionError")
               /\ UNCHANGED <<comments, replied>>
          ELSE /\ comments' = (comments \ {stored[1]}) \cup {PushUpdate(stored[1], local)}
               /\ replied' = replied \cup {local.id}
               /\ resp' = Answer(reqs[r], 201, <<[local EXCEPT !.v = @ + 1]>>)
    /\ reqs' = [reqs EXCEPT ![r] = Idle]
    /\ UNCHANGED <<nextId, now, created, deleted, buried, removed, mongoUri>>

\* --------------------------- DELETE /reply/:commentId/:replyId (delreply)
\* FindIndex without the test for "no match": the -1 of findIndex is used
\* as an index, which splice counts from the end of the array.
FindIndexOrLast(replies, replyId) ==
    IF \E i \in 1..Len(replies) : replies[i].id = replyId
    THEN CHOOSE i \in 1..Len(replies) :
            /\ replies[i].id = replyId
            /\ \A j \in 1..(i - 1) : replies[j].id # replyId
    ELSE Len(replies)

\* comment.replies.findIndex(r => r._id.toString() === replyId): the first
\* index whose reply has that id, 0 when there is none (-1 in the source).
FindIndex(replies, replyId) ==
    IF \E i \in 1..Len(replies) : replies[i].id = replyId
    THEN CHOOSE i \in 1..Len(replies) :
            /\ replies[i].id = replyId
            /\ \A j \in 1..(i - 1) : replies[j].id # replyId
    ELSE 0
\* splice(replyIndex) without a count: everything from the index on goes.
SpliceToEnd(replies, i) == SubSeq(replies, 1, i - 1)

\* replies.splice(replyIndex, 1)
Splice(replies, i) ==
    [k \in 1..(Len(replies) - 1) |-> IF k < i THEN replies[k] ELSE replies[k + 1]]

\* The handler up to `await comment.save()`.
DeleteReplyFind(r, commentId, replyId, up) ==
    /\ Free(r)
    /\ LET rq == [Idle EXCEPT !.op = "delreply", !.id = commentId, !.replyId = replyId]
           result == FindById(commentId)
       IN IF ~IsObjectId(commentId)
          THEN /\ resp' = CatchCast(rq, "CastError")
               /\ UNCHANGED reqs
          ELSE IF ~up
          THEN /\ resp' = CatchCast(rq, "Unreachable")
               /\ UNCHANGED reqs
          ELSE IF result = <<>>
          THEN /\ resp' = Refuse(rq, 404, "NotFound")
               /\ UNCHANGED reqs
          ELSE IF FindIndex(result[1].replies, replyId) = 0
          THEN /\ resp' = Refuse(rq, 404, "NotFound")
               /\ UNCHANGED reqs
          ELSE /\ reqs' = [reqs EXCEPT ![r] =
                      [rq EXCEPT !.pc = "save",
                                 !.doc = <<[result[1] EXCEPT !.replies =
                                              Splice(@, FindIndex(@, replyId))]>>]]
               /\ resp' = Idle
    /\ UNCHANGED <<comments, nextId, now, hist, mongoUri>>

\* The update save() sends after a splice: the whole array is replaced and
\* the version the document was read at must still be the stored one:
\* updateOne({_id, __v}, {$set: {replies}, $inc: {__v: 1}}).  When nothing
\* matches, save() rejects with a VersionError.
DeleteReplySave(r, up) ==
    /\ reqs[r].op = "delreply" /\ reqs[r].pc = "save"
    /\ LET local == reqs[r].doc[1]
           stored == FindById(local.id)
       IN IF ~ValidComment(local)
          THEN /\ resp' = CatchCast(reqs[r], "ValidationError")
               /\ UNCHANGED <<comments, removed>>
          ELSE IF ~up
          THEN /\ resp' = CatchCast(reqs[r], "Unreachable")
               /\ UNCHANGED <<comments, removed>>
          ELSE IF stored = <<>> \/ stored[1].v # local.v
          THEN /\ resp' = CatchCast(reqs[r], "VersionError")
               /\ UNCHANGED <<comments, removed>>
          ELSE /\ comments' = (comments \ {stored[1]})
                                 \cup {[stored[1] EXCEPT !.replies = local.replies,
                                                         !.v = @ + 1]}
               /\ removed' = removed \cup {<<reqs[r].id, reqs[r].replyId>>}
               /\ resp' = Answer(reqs[r], 200, <<[local EXCEPT !.v = @ + 1]>>)
    /\ reqs' = [reqs EXCEPT ![r] = Idle]
    /\ UNCHANGED <<nextId, now, created, replied, deleted, buried, mongoUri>>
\* ------------------------------------------------- save() on a collection
\* What `await comment.save()` of the suspended handler rq does to a
\* collection S the store executes it on: the push update for a reply, the
\* versioned write of the array for a removed reply, nothing when no document
\* matches.
SaveOn(S, rq) ==
    LET local == rq.doc[1]
        match == {d \in S : d.id = local.id}
    IN IF match = {} THEN S
       ELSE LET stored == CHOOSE d \in match : TRUE
            IN IF rq.op = "reply"
               THEN (S \ {stored}) \cup {PushUpdate(stored, local)}
               ELSE IF stored.v # local.v THEN S
               ELSE (S \ {stored}) \cup {[stored EXCEPT !.replies = local.replies,
                                                        !.v = @ + 1]}

\* The status the handler rq answers after that save.
SaveStatusOn(S, rq) ==
    LET local == rq.doc[1]
        match == {d \in S : d.id = local.id}
    IN IF match = {} THEN 500
       ELSE IF rq.op = "reply" THEN 201
       ELSE IF (CHOOSE d \in match : TRUE).v # local.v THEN 500 ELSE 200

\* ---------------------------------------------------------- specification
Next ==
    \/ Tick
    \/ \E c \in ListContentIds, up \in StoreUp : ListComments(c, up)
    \/ \E b \in CreateBodies, t0 \in 0..now, up \in StoreUp : CreateComment(b, t0, up)
    \/ \E id \in CommentIdInputs, up \in StoreUp : DeleteComment(id, up)
    \/ \E r \in Reqs, b \in ReplyRequests, t0 \in 0..now, up \in StoreUp :
          AddReplyFind(r, b, t0, up)
    \/ \E r \in Reqs, up \in StoreUp : AddReplySave(r, up)
    \/ \E r \in Reqs, c \in CommentIdInputs, up \in StoreUp :
          \E rp \in ReplyIdInputs(c) : DeleteReplyFind(r, c, rp, up)
    \/ \E r \in Reqs, up \in StoreUp : DeleteReplySave(r, up)

Spec == Init /\ [][Next]_vars

\* ================================================================= claims
\* C1 as stated: a ListComments(contentId) that succeeds shows every comment
\* a CreateComment stored with that contentId and no DeleteComment removed
\* since, with the trimmed text of its request, the given contentId and
\* replies = <<>>.
C1_ListHasCreatedWithoutReplies ==
    (resp.op = "list" /\ resp.status = 200) =>
        \A id \in DOMAIN created :
            created[id].contentId = resp.contentId =>
                \E i \in 1..Len(resp.body) :
                    /\ resp.body[i].id = id
                    /\ resp.body[i].contentId = created[id].contentId
                    /\ resp.body[i].text = Trim(created[id].text)
                    /\ resp.body[i].replies = <<>>

\* C1 as amended: a ListComments(contentId) that succeeds shows every
\* comment a CreateComment stored with that contentId and no DeleteComment
\* removed since, with the trimmed text of its request and the given
\* contentId, and with replies = <<>> when no AddReply has saved a reply to
\* it since.
C1_ListHasCreated ==
    (resp.op = "list" /\ resp.status = 200) =>
        \A id \in DOMAIN created :
            created[id].contentId = resp.contentId =>
                \E i \in 1..Len(resp.body) :
                    /\ resp.body[i].id = id
                    /\ resp.body[i].contentId = created[id].contentId
                    /\ resp.body[i].text = Trim(created[id].text)
                    /\ id \notin replied => resp.body[i].replies = <<>>

\* A list answered with a comment whose request text had surrounding
\* whitespace and which no AddReply has touched.
C1_Witness ==
    /\ resp.op = "list" /\ resp.status = 200
    /\ \E id \in DOMAIN created :
          /\ created[id].contentId = resp.contentId
          /\ created[id].text # Trim(created[id].text)
          /\ id \notin replied

\* C2: a ListComments(contentId) the store answers succeeds with exactly the
\* stored comments whose contentId equals the requested one, each once, in
\* an order of descending date; with no such comment the result is the
\* empty sequence, with a success status.
C2_ListExactDescending ==
    (resp.op = "list" /\ resp.err # "Unreachable") =>
        /\ resp.status = 200
        /\ {resp.body[i] : i \in 1..Len(resp.body)}
              = {d \in comments : d.contentId = resp.contentId}
        /\ Len(resp.body) = Cardinality({d \in comments : d.contentId = resp.contentId})
        /\ \A i \in 1..(Len(resp.body) - 1) : resp.body[i].date >= resp.body[i + 1].date

\* A list of two comments of different dates, answered while the store also
\* holds a comment of another contentId.
C2_Witness ==
    /\ resp.op = "list" /\ resp.status = 200
    /\ Len(resp.body) = 2
    /\ resp.body[1].date > resp.body[2].date
    /\ \E d \in comments : d.contentId # resp.contentId

\* C3: an AddReply whose parentCommentId is well-formed and matches no stored
\* comment leaves the set of stored comments and their replies as they were,
\* never goes on to push and save, and is answered 404 when its body passes
\* the validation and the store executes the lookup.
C3_ReplyToMissingParent ==
    [][\A id \in (1..(MaxIds + 1)) \ Ids(comments) :
          /\ (resp'.op = "reply" /\ resp'.id = id) =>
                /\ comments' = comments
                /\ resp'.status # 201
                /\ (/\ reqs' = reqs
                    /\ Truthy(resp'.contentId) /\ Truthy(resp'.text)
                    /\ Length(Trim(resp'.text)) > 0
                    /\ Length(resp'.text) <= MaxReplyText
                    /\ resp'.err # "Unreachable") => resp'.status = 404
          /\ \A r \in Reqs :
                (reqs[r].pc = "idle" /\ reqs'[r].op = "reply") => reqs'[r].id # id
      ]_vars

\* A reply to the id of a deleted comment answered 404 while other comments
\* are stored.
C3_Witness ==
    /\ resp.op = "reply" /\ resp.status = 404
    /\ resp.id \in deleted
    /\ comments # {}
    /\ \E d \in comments : d.replies # <<>>

\* C4: an AddReply answered 201 has changed the stored parent, and only it,
\* by appending one reply at the end of its replies: the replies before it
\* are the stored ones in their order, the new reply carries the trimmed
\* text of the request, an id no other reply of the comment has and a date
\* >= the time the request arrived; every later listing of the parent's
\* contentId shows the parent with that reply at its end.
C4_ReplyAppended ==
    [][(resp'.op = "reply" /\ resp'.status = 201) =>
          /\ resp'.id \in Ids(comments) /\ resp'.id \in Ids(comments')
          /\ LET old == CHOOSE d \in comments : d.id = resp'.id
                 new == CHOOSE d \in comments' : d.id = resp'.id
             IN /\ comments' \ {new} = comments \ {old}
                /\ Len(new.replies) = Len(old.replies) + 1
                /\ SubSeq(new.replies, 1, Len(old.replies)) = old.replies
                /\ new.replies[Len(new.replies)].text = Trim(resp'.text)
                /\ new.replies[Len(new.replies)].id \notin ReplyIdsOf(old)
                /\ new.replies[Len(new.replies)].date >= resp'.t0
                /\ [new EXCEPT !.replies = old.replies, !.v = old.v] = old
                /\ \A s \in SortDateDesc({d \in comments' : d.contentId = new.contentId}) :
                      \E i \in 1..Len(s) : s[i] = new
      ]_vars

\* A reply answered 201 whose request text had surrounding whitespace, stored
\* after an older reply of the same comment, with a date after the arrival
\* of the request.
C4_Witness ==
    /\ resp.op = "reply" /\ resp.status = 201
    /\ resp.text # Trim(resp.text)
    /\ \E d \in comments :
          /\ d.id = resp.id
          /\ Len(d.replies) = 2
          /\ d.replies[2].text = Trim(resp.text)
          /\ d.replies[2].date > resp.t0

\* C5: a DeleteReply answered 200 has changed the stored comment, and only
\* it, by removing the one reply whose id is replyId: the replies are the
\* previous ones without it, in the same order, one fewer.
C5_ReplyRemoved ==
    [][(resp'.op = "delreply" /\ resp'.status = 200) =>
          /\ resp'.id \in Ids(comments) /\ resp'.id \in Ids(comments')
          /\ LET old == CHOOSE d \in comments : d.id = resp'.id
                 new == CHOOSE d \in comments' : d.id = resp'.id
                 Kept(rp) == rp.id # resp'.replyId
             IN /\ comments' \ {new} = comments \ {old}
                /\ new.replies = SelectSeq(old.replies, Kept)
                /\ Len(new.replies) = Len(old.replies) - 1
                /\ [new EXCEPT !.replies = old.replies, !.v = old.v] = old
      ]_vars

\* A DeleteReply answered 200 that removed the first of two replies.
C5_Witness ==
    /\ resp.op = "delreply" /\ resp.status = 200
    /\ \E d \in comments :
          /\ d.id = resp.id
          /\ Len(d.replies) = 1
          /\ d.replies[1].id > resp.replyId

\* C6: a DeleteReply whose lookups the store executes is answered 404,
\* changes no stored comment and never goes on to splice and save, when an
\* earlier DeleteReply(commentId, replyId) has succeeded, when no stored
\* comment has the (well-formed) commentId, or when no reply of the comment
\* has the id replyId.
C6_DeleteReplyNotFound ==
    [][/\ (/\ resp'.op = "delreply" /\ reqs' = reqs
           /\ IsObjectId(resp'.id) /\ resp'.err # "Unreachable"
           /\ \/ <<resp'.id, resp'.replyId>> \in removed
              \/ resp'.id \notin Ids(comments)
              \/ resp'.replyId \notin ReplyIds(resp'.id))
          => (resp'.status = 404 /\ comments' = comments)
       /\ \A r \in Reqs :
             (reqs[r].pc = "idle" /\ reqs'[r].op = "delreply") =>
                /\ <<reqs'[r].id, reqs'[r].replyId>> \notin removed
                /\ reqs'[r].id \in Ids(comments)
                /\ reqs'[r].replyId \in ReplyIds(reqs'[r].id)
      ]_vars

\* The repeated call: a DeleteReply answered 404 for a pair an earlier
\* DeleteReply removed, the comment still stored with another reply.
C6_Witness ==
    /\ resp.op = "delreply" /\ resp.status = 404
    /\ <<resp.id, resp.replyId>> \in removed
    /\ resp.id \in Ids(comments)
    /\ ReplyIds(resp.id) # {}

\* C7: a DeleteComment of a well-formed id no stored comment has, the store
\* executing the command, is answered, with 404, and changes nothing.
C7_DeleteMissingNotFound ==
    [][(/\ resp'.op = "delete"
        /\ IsObjectId(resp'.id) /\ resp'.id \notin Ids(comments)
        /\ resp'.err # "Unreachable")
          => /\ resp'.pc = "done" /\ resp'.status = 404
             /\ comments' = comments
             /\ reqs' = reqs
      ]_vars

\* The second DeleteComment of an id: answered 404 for an id a DeleteComment
\* removed, other comments stored.
C7_Witness ==
    /\ resp.op = "delete" /\ resp.status = 404
    /\ resp.id \in deleted
    /\ comments # {}

\* C8: once a DeleteComment has removed a comment, in every later state no
\* stored comment has its id and no stored reply the id of one of its
\* replies, no ListComments result holds the comment or one of its replies,
\* no handler goes on to save for its id, an AddReply (with a body that
\* passes the validation) or DeleteReply that looks the id up is answered
\* 404, and no reply operation on the id is answered with success or
\* changes the store.
C8_DeletedStaysDeleted ==
    [][/\ deleted' \cap Ids(comments') = {}
       /\ \A d \in comments' : ReplyIdsOf(d) \cap buried' = {}
       /\ resp'.op = "list" =>
             \A i \in 1..Len(resp'.body) :
                /\ resp'.body[i].id \notin deleted'
                /\ ReplyIdsOf(resp'.body[i]) \cap buried' = {}
       /\ (resp'.op \in {"reply", "delreply"} /\ resp'.id \in deleted) =>
             /\ resp'.status \notin {200, 201}
             /\ comments' = comments
             /\ (/\ reqs' = reqs
                 /\ resp'.err # "Unreachable"
                 /\ resp'.op = "reply" =>
                       /\ Truthy(resp'.contentId) /\ Truthy(resp'.text)
                       /\ Length(Trim(resp'.text)) > 0
                       /\ Length(resp'.text) <= MaxReplyText)
                => resp'.status = 404
       /\ \A r \in Reqs :
             (reqs[r].pc = "idle" /\ reqs'[r].pc # "idle") => reqs'[r].id \notin deleted
      ]_vars

\* A DeleteReply answered 404 that named a deleted comment and a reply that
\* was removed with it.
C8_Witness ==
    /\ resp.op = "delreply" /\ resp.status = 404
    /\ resp.id \in deleted
    /\ resp.replyId \in buried

\* The AddReply handlers suspended between their read and their save.
SavingReply == {r \in Reqs : reqs[r].op = "reply" /\ reqs[r].pc = "save"}

\* C9: an AddReply that has read its comment saves with success (201)
\* whatever other AddReply read or saved the same comment in between, as
\* long as the comment is stored and the store executes the save; the save
\* keeps every reply stored at that moment, the ones other requests saved
\* after this one's read included, and adds its own; the handlers still
\* suspended on the comment keep their own replies to save.
C9_ConcurrentRepliesKept ==
    [][\A r \in SavingReply :
          (reqs'[r].pc = "idle" /\ reqs[r].id \in Ids(comments)
              /\ resp'.err # "Unreachable") =>
             /\ resp'.status = 201
             /\ LET old == CHOOSE d \in comments : d.id = reqs[r].id
                    new == CHOOSE d \in comments' : d.id = reqs[r].id
                    mine == reqs[r].doc[1].replies[Len(reqs[r].doc[1].replies)]
                IN /\ \A i \in 1..Len(old.replies) :
                         \E j \in 1..Len(new.replies) : new.replies[j] = old.replies[i]
                   /\ \E j \in 1..Len(new.replies) : new.replies[j] = mine
                   /\ Len(new.replies) = Len(old.replies) + 1
             /\ \A q \in SavingReply \ {r} : reqs'[q] = reqs[q]
      ]_vars

\* Two AddReply requests that both read the comment before either saved
\* have both been answered 201: the second one's response, built from the
\* copy it read, holds one reply, and the stored comment holds both.
C9_Witness ==
    /\ resp.op = "reply" /\ resp.status = 201
    /\ Len(resp.body[1].replies) = 1
    /\ \E d \in comments :
          /\ d.id = resp.id
          /\ Len(d.replies) = 2
          /\ d.replies[2] = resp.body[1].replies[1]
          /\ d.replies[1].id # d.replies[2].id

\* C10: a CreateComment the store would execute is answered 400 and stores
\* nothing whenever contentId is missing or empty after trimming, text is
\* missing or empty after trimming, or text is longer than 1000 characters.
C10_CreateRefusesInvalid ==
    [][(/\ resp'.op = "create" /\ resp'.err # "Unreachable"
        /\ \/ resp'.contentId.kind = "undefined"
           \/ Length(Trim(resp'.contentId)) = 0
           \/ resp'.text.kind = "undefined"
           \/ Length(Trim(resp'.text)) = 0
           \/ Length(resp'.text) > MaxCommentText)
          => (resp'.status = 400 /\ comments' = comments)
      ]_vars

\* A CreateComment with the contentId " " answered 201 and stored.
C10_BlankContentIdStored ==
    /\ resp.op = "create" /\ resp.status = 201
    /\ Length(resp.contentId) > 0 /\ Length(Trim(resp.contentId)) = 0
    /\ \E d \in comments : d.id = resp.body[1].id /\ d.contentId = resp.contentId

\* C11: every operation that takes an identifier answers a malformed one
\* with 400 and changes nothing: DeleteComment with a malformed commentId,
\* AddReply (its body otherwise passing the validation) with a malformed
\* parentCommentId, DeleteReply with a malformed commentId or a malformed
\* replyId.
C11_MalformedIdRefused ==
    [][(\/ resp'.op = "delete" /\ resp'.id = 0
        \/ /\ resp'.op = "reply" /\ resp'.id = 0
           /\ Truthy(resp'.contentId) /\ Truthy(resp'.text)
           /\ Length(Trim(resp'.text)) > 0
           /\ Length(resp'.text) <= MaxReplyText
        \/ /\ resp'.op = "delreply" /\ resp'.err # "Unreachable"
           /\ (resp'.id = 0 \/ resp'.replyId = 0))
          => (resp'.status = 400 /\ comments' = comments)
      ]_vars

\* A DeleteReply that named a stored comment and a malformed replyId,
\* answered 404.
C11_MalformedReplyIdNotFound ==
    /\ resp.op = "delreply" /\ resp.status = 404
    /\ resp.id \in Ids(comments)
    /\ resp.replyId = 0

\* C12: a request whose store call finds the store unreachable is answered
\* 503.
C12_UnreachableIs503 == resp.err = "Unreachable" => resp.status = 503

\* A ListComments that found the store unreachable, answered 500.
C12_UnreachableAnswered500 ==
    /\ resp.op = "list" /\ resp.err = "Unreachable"
    /\ resp.status = 500

\* C13: an AddReply whose body holds only a parentCommentId that matches no
\* stored comment and a non-empty text (no email, no contentId) is answered
\* 404.
C13_BareReplyToMissingIs404 ==
    [][(/\ resp'.op = "reply"
        /\ resp'.contentId = Undefined /\ resp'.email = Undefined
        /\ Truthy(resp'.text) /\ Length(Trim(resp'.text)) > 0
        /\ IsObjectId(resp'.id) /\ resp'.id \notin Ids(comments))
          => resp'.status = 404
      ]_vars

\* Such a request answered 400 for the contentId its body leaves out.
C13_BareReplyRefused ==
    /\ resp.op = "reply" /\ resp.status = 400 /\ resp.err = "Missing"
    /\ resp.contentId = Undefined /\ resp.email = Undefined
    /\ Truthy(resp.text)
    /\ IsObjectId(resp.id) /\ resp.id \notin Ids(comments)

\* C14: every failure of a handler is answered, with the status of its kind:
\* 400 for an invalid input (a field missing, an empty or oversized text, a
\* malformed id), 404 for a comment or reply that is not found, 503 for an
\* unreachable store and 500 for any other failure.
C14_ErrorStatusByKind ==
    resp.err # "" =>
        /\ resp.pc = "done"
        /\ resp.status =
              CASE resp.err \in {"Missing", "Empty", "TooLong", "CastError"} -> 400
                [] resp.err = "NotFound" -> 404
                [] resp.err = "Unreachable" -> 503
                [] OTHER -> 500

\* A DeleteReply on a stored comment that found the store unreachable,
\* answered 500.
C14_UnreachableAnswered500 ==
    /\ resp.op = "delreply" /\ resp.pc = "done"
    /\ resp.err = "Unreachable" /\ resp.status = 500
    /\ resp.id \in Ids(comments)

\* C15: in every reachable state every stored comment has a non-empty
\* contentId and a text that is non-empty after trimming and at most 1000
\* characters long, and every stored reply a text that is non-empty after
\* trimming and at most 500 characters long.
C15_StoredTextsValid ==
    \A d \in comments :
        /\ d.contentId.kind = "string" /\ Length(d.contentId) > 0
        /\ d.text.kind = "string"
        /\ Length(Trim(d.text)) > 0
        /\ Length(d.text) <= 1000
        /\ \A i \in 1..Len(d.replies) :
              /\ d.replies[i].text.kind = "string"
              /\ Length(Trim(d.replies[i].text)) > 0
              /\ Length(d.replies[i].text) <= 500

\* A stored comment whose request text had surrounding whitespace, with a
\* stored reply, after requests with blank and oversized texts were made.
C15_Witness ==
    /\ \E d \in comments :
          /\ d.id \in DOMAIN created
          /\ created[d.id].text # d.text
          /\ d.replies # <<>>
    /\ resp.op = "create" /\ resp.err = "TooLong"

\* C16: no step changes the id, contentId, email, text or date of a comment
\* that stays stored; a comment enters the store only by a CreateComment
\* answered 201, with the contentId, the trimmed text and the (defaulted)
\* email of the request, no replies, and a date the server took from its
\* clock, no later than the time of the save.
C16_CommentFieldsFrozen ==
    [][/\ \A d \in comments : \A e \in comments' :
             e.id = d.id =>
                /\ e.contentId = d.contentId /\ e.email = d.email
                /\ e.text = d.text /\ e.date = d.date
       /\ \A e \in comments' :
             e.id \notin Ids(comments) =>
                /\ resp'.op = "create" /\ resp'.status = 201
                /\ resp'.body = <<e>>
                /\ e.contentId = resp'.contentId
                /\ e.text = Trim(resp'.text)
                /\ e.email = (IF Truthy(resp'.email) THEN resp'.email ELSE Guest)
                /\ e.replies = <<>>
                /\ e.date \in 0..now
      ]_vars

\* An AddReply answered 201 on a comment created at an earlier time: the
\* reply has a later date than the comment, whose date is still that of its
\* creation.
C16_Witness ==
    /\ resp.op = "reply" /\ resp.status = 201
    /\ \E d \in comments :
          /\ d.id = resp.id /\ d.id \in DOMAIN created
          /\ d.replies # <<>>
          /\ d.replies[Len(d.replies)].date > d.date

\* The handlers suspended at their save.
Saving == {r \in Reqs : reqs[r].pc = "save"}

\* C17: operations on different comments are independent.  A step changes
\* or removes no stored comment but the one its request names, and none
\* when it answers nothing.  A save does to the store what SaveOn says and
\* is answered as SaveStatusOn says.  And when a DeleteComment or a save on
\* a comment B acts while a handler is suspended at its save on another
\* comment A, the other order (the suspended save first, the operation on
\* B after it) ends in the same store with the same two responses.
C17_DifferentCommentsIndependent ==
    [][/\ \A d \in comments :
             d \notin comments' =>
                /\ resp'.pc = "done" /\ resp'.id = d.id
                /\ resp'.op \in {"delete", "reply", "delreply"}
       /\ \A q \in Saving :
             (reqs'[q].pc = "idle" /\ resp'.err # "Unreachable") =>
                /\ comments' = SaveOn(comments, reqs[q])
                /\ resp'.status = SaveStatusOn(comments, reqs[q])
       /\ \A r \in Saving :
             (reqs'[r] = reqs[r] /\ resp'.pc = "done" /\ resp'.id # reqs[r].id
                  /\ resp'.err # "Unreachable") =>
                /\ SaveStatusOn(comments', reqs[r]) = SaveStatusOn(comments, reqs[r])
                /\ resp'.op = "delete" /\ resp'.status = 200 =>
                      /\ SaveOn(comments', reqs[r])
                            = {d \in SaveOn(comments, reqs[r]) : d.id # resp'.id}
                      /\ \E d \in SaveOn(comments, reqs[r]) : resp'.body = <<d>>
                /\ \A q \in Saving :
                      reqs'[q].pc = "idle" =>
                         /\ SaveOn(comments', reqs[r])
                               = SaveOn(SaveOn(comments, reqs[r]), reqs[q])
                         /\ resp'.status
                               = SaveStatusOn(SaveOn(comments, reqs[r]), reqs[q])
      ]_vars

\* A DeleteComment answered 200 while a handler is suspended at its save on
\* another comment, which is stored.
C17_Witness ==
    /\ resp.op = "delete" /\ resp.status = 200
    /\ \E r \in Saving :
          /\ reqs[r].id # resp.id
          /\ reqs[r].id \in Ids(comments)

\* C18: when the connection string is missing at startup the process
\* terminates and no request is ever served: no state has a request that was
\* handled and answered.
C18_NoServiceWithoutUri == ~mongoUri => resp.pc # "done"

\* A ListComments answered (with 500) by a server started without a
\* connection string.
C18_ServedWithoutUri ==
    /\ ~mongoUri
    /\ resp.op = "list" /\ resp.pc = "done" /\ resp.status = 500

\* C19: a step that answers a request with an error status (400, 404, 500
\* or 503) leaves the store as it was, and so did the earlier step of the
\* same handler, which only read: no comment is created or deleted and no
\* replies sequence is changed by a request that fails.
C19_ErrorsChangeNothing ==
    [][/\ (resp'.pc = "done" /\ resp'.status \in {400, 404, 500, 503}) =>
             comments' = comments
       /\ \A r \in Reqs :
             (reqs[r].pc = "idle" /\ reqs'[r].pc = "save") => comments' = comments
      ]_vars

\* A DeleteReply whose save lost against a concurrent save on the same
\* comment, answered 500, the comment stored with the reply it had named.
C19_Witness ==
    /\ resp.op = "delreply" /\ resp.status = 500 /\ resp.err = "VersionError"
    /\ \E d \in comments :
          /\ d.id = resp.id
          /\ resp.replyId \in ReplyIdsOf(d)

\* C20: when an AddReply or DeleteReply has read a comment and a
\* DeleteComment removes the comment before the handler saves, the save
\* changes nothing: the comment is absent from the store and from every
\* listing after it, and the handler does not answer with success.
C20_NoResurrection ==
    [][\A r \in Saving :
          (reqs[r].id \in deleted /\ reqs'[r].pc = "idle") =>
             /\ resp'.pc = "done" /\ resp'.id = reqs[r].id
             /\ resp'.status \notin {200, 201}
             /\ comments' = comments
             /\ reqs[r].id \notin Ids(comments')
             /\ \A c \in ListContentIds :
                   \A s \in SortDateDesc(Matching(comments', c)) :
                      \A i \in 1..Len(s) : s[i].id # reqs[r].id
      ]_vars

\* An AddReply that read its comment before a DeleteComment removed it and
\* saved after: answered 500, other comments stored.
C20_Witness ==
    /\ resp.op = "reply" /\ resp.pc = "done"
    /\ resp.id \in deleted
    /\ resp.err = "VersionError" /\ resp.status = 500
    /\ comments # {}

\* The ids of the replies the suspended handler rq found when it read its
\* comment: its local copy without the reply it pushed, or with the reply it
\* spliced out.
ReadReplyIds(rq) ==
    IF rq.op = "reply"
    THEN ReplyIdsOf(rq.doc[1]) \ {rq.doc[1].replies[Len(rq.doc[1].replies)].id}
    ELSE ReplyIdsOf(rq.doc[1]) \cup {rq.replyId}

\* C21: a save of a reply operation that is answered with success keeps what
\* the other operations on the same comment did between this handler's read
\* and its save: every reply appended since the read is still in the
\* replies, no reply removed since the read is put back, and of the replies
\* stored at the save only the one a DeleteReply named is missing.
C21_RepliesOfOthersKept ==
    [][\A r \in Saving :
          (reqs'[r].pc = "idle" /\ resp'.status \in {200, 201}) =>
             /\ reqs[r].id \in Ids(comments) /\ reqs[r].id \in Ids(comments')
             /\ LET old == CHOOSE d \in comments : d.id = reqs[r].id
                    new == CHOOSE d \in comments' : d.id = reqs[r].id
                IN /\ \A x \in ReplyIdsOf(old) \ ReadReplyIds(reqs[r]) :
                         x \in ReplyIdsOf(new)
                   /\ \A x \in ReadReplyIds(reqs[r]) \ ReplyIdsOf(old) :
                         x \notin ReplyIdsOf(new)
                   /\ ReplyIdsOf(old) \ ReplyIdsOf(new)
                         = (IF reqs[r].op = "delreply" THEN {reqs[r].replyId} ELSE {})
                   /\ \A i, j \in 1..Len(old.replies) :
                         (i < j /\ old.replies[i].id \in ReplyIdsOf(new)
                                /\ old.replies[j].id \in ReplyIdsOf(new)) =>
                            \E k, l \in 1..Len(new.replies) :
                               /\ k < l
                               /\ new.replies[k] = old.replies[i]
                               /\ new.replies[l] = old.replies[j]
      ]_vars

\* An AddReply and a DeleteReply on the same comment that both read it
\* before either saved, both answered with success: the AddReply's response,
\* built from the copy it read, still shows the removed reply; the stored
\* comment holds the new reply and not the removed one.
C21_Witness ==
    /\ resp.op = "reply" /\ resp.status = 201
    /\ \E p \in removed :
          /\ p[1] = resp.id
          /\ p[2] \in ReplyIdsOf(resp.body[1])
          /\ \E d \in comments :
                /\ d.id = resp.id
                /\ p[2] \notin ReplyIdsOf(d)
                /\ Len(d.replies) = 1
                /\ d.replies[1] = resp.body[1].replies[Len(resp.body[1].replies)]

\* C22: DeleteComment is one atomic store command, so two requests for the
\* same stored comment are served in one order or the other.  With the
\* store executing the command, the request served while the comment is
\* stored is answered 200 with the comment as it was stored, removes exactly
\* that comment, and is the first to remove that id; a request served when
\* the id is not stored (the other one was served first) is answered 404
\* NotFound and changes nothing; neither is answered 500, and an id once
\* removed stays removed.
C22_DeleteOnceThenNotFound ==
    [][/\ deleted \subseteq deleted'
       /\ (/\ resp'.op = "delete" /\ resp'.pc = "done"
           /\ IsObjectId(resp'.id)
           /\ resp'.err # "Unreachable") =>
             /\ resp'.status \in {200, 404}
             /\ resp'.status = 200 <=> resp'.id \in Ids(comments)
             /\ resp'.status = 200 =>
                   /\ resp'.id \notin deleted /\ resp'.id \in deleted'
                   /\ Len(resp'.body) = 1
                   /\ resp'.body[1] \in comments
                   /\ resp'.body[1].id = resp'.id
                   /\ comments' = comments \ {resp'.body[1]}
             /\ resp'.status = 404 =>
                   /\ resp'.err = "NotFound"
                   /\ comments' = comments
                   /\ deleted' = deleted
      ]_vars

\* The second of two DeleteComment requests for the same comment: the first
\* removed it, this one is answered 404 NotFound and the id is stored
\* nowhere.
C22_Witness ==
    /\ resp.op = "delete" /\ resp.pc = "done"
    /\ resp.status = 404 /\ resp.err = "NotFound"
    /\ resp.id \in deleted
    /\ resp.id \notin Ids(comments)

====
